---- MODULE Spec2Model ----
(***************************************************************************)
(* A model of esb2ha's measurement pipeline: parse.HDF (row ingestion,    *)
(* reversal, fixTimezone, splitTimes), parse.Translate and the loop of    *)
(* uploadCmd.parseAndUpload that hands every block to Home Assistant.     *)
(*                                                                         *)
(* Time.  An instant (Go's time.Time) is an integer: minutes since         *)
(* 01-01-2023 00:00 UTC.  All timestamps of the model lie in 2023, the     *)
(* year of the repository's test vectors.  The location is always          *)
(* Europe/Dublin, so the zone of an instant is a function of the instant.  *)
(*                                                                         *)
(* Values.  A read value (kW, a float64 in the code) is an integer count   *)
(* of 1/UnitsPerKW kW; the texts of the model have at most three decimals, *)
(* so that every value is even and value / 2.0 is exact.                   *)
(***************************************************************************)
EXTENDS Integers, Sequences, FiniteSets, TLC

VARIABLES
    header,    \* the first record csv.Reader returned, <<>> before it is read or at EOF
    pc,        \* where the process is: "header", "rows", "upload", "failed", "done", "panicked"
    dataset,   \* which export is being read (fixes the rows the file can carry)
    file,      \* the data records csv.Reader has returned so far, in file order
    res,       \* HDF's accumulator: MPRN, MeterSerialNumber, ReadTypes, Reads
    parsed,    \* what HDF returned: the blocks ([]Result), <<>> for nil
    err,       \* what HDF returned: the error, NoError for nil
    idx,       \* parseAndUpload: number of blocks already handed to upload
    stat,      \* upload: the outcome of the last parse.Translate
    uploads,   \* parseAndUpload: how each call of upload so far has ended
    open,      \* Home Assistant connections opened and not closed
    logged,    \* fixTimezone: lines written to the log
    ret,       \* parseAndUpload's exit status
    cmd,       \* the subcommand: "download", "upload" or "pipe"
    cli,       \* the value of every flag of the subcommand as the command line gave it
    env,       \* os.Getenv of every flag name ("" when the variable is not set)
    flags,     \* the FlagSet: the current value of every flag of the subcommand
    cpc,       \* Execute: "start", "download", "parse", "done"
    cret,      \* Execute's exit status
    attempted, \* what Execute has started so far: "download", "parse", "upload"
    session,   \* esbnetworks.ie: a login is in force for the cookies of the Client
    calls,     \* esblib.Client: calls of Login and DownloadPowerConsumption so far
    sent,      \* esblib.Client: requests DownloadPowerConsumption has sent so far
    out,       \* esblib.Client: the last call of DownloadPowerConsumption and its result
    hpc,       \* ha: "dial", "login", "auth", "ready", "wait", "failed", "closed"
    conn,      \* ha.Connection: the websocket, msgID, ServerVersion
    wire,      \* ha: the messages written to the websocket so far
    hello,     \* ha: what login has read from the websocket so far
    hret,      \* ha: what NewConnection returned: "connection" or the error
    sends      \* ha: the calls of SendStatistics that returned: id, message read, error

hdfVars == <<header, pc, dataset, file, res, parsed, err, idx, stat, uploads, open, logged, ret>>

cliVars == <<cmd, cli, env, flags, cpc, cret, attempted>>

esbVars == <<session, calls, sent, out>>

haVars == <<hpc, conn, wire, hello, hret, sends>>

vars == <<hdfVars, cliVars, esbVars, haVars>>

(***************************************************************************)
(* Bounds of the model.                                                    *)
(***************************************************************************)
MaxRows == 4

MaxUniformRows == 6
\* The most data rows of an export with a hole.
MaxHolesRows == 6

(***************************************************************************)
(* Constants of the program.                                               *)
(***************************************************************************)
wantReadType == "Active Import Interval (kW)"

headerFormat ==
    <<"MPRN", "Meter Serial Number", "Read Value", "Read Type", "Read Date and End Time">>

MinutesPerHour == 60

HalfHour == 30

UnitsPerKW == 2000

\* Europe/Dublin in 2023: IST (UTC+1) from 26-03 01:00 UTC until 29-10 01:00 UTC,
\* GMT (UTC+0) before and after.
SpringUTC == (31 + 28 + 25) * 1440 + 60

AutumnUTC == (31 + 28 + 31 + 30 + 31 + 30 + 31 + 31 + 30 + 28) * 1440 + 60

IstOffset == 60

(***************************************************************************)
(* time.Location lookups and time.Date, as ParseInLocation uses them.      *)
(***************************************************************************)
\* Location.lookup: the zone in force at a UTC instant, with the interval
\* [start, end) in which it is in force.
Lookup(unix) ==
    IF unix < SpringUTC
    THEN [name |-> "GMT", offset |-> 0, start |-> -1, end |-> SpringUTC]
    ELSE IF unix < AutumnUTC
         THEN [name |-> "IST", offset |-> IstOffset, start |-> SpringUTC, end |-> AutumnUTC]
         ELSE [name |-> "GMT", offset |-> 0, start |-> AutumnUTC,
               end |-> 366 * 1440]

\* Time.Zone(): name and offset of an instant in Europe/Dublin.
ZoneName(t) == Lookup(t).name

ZoneOffset(t) == Lookup(t).offset

\* time.Date: the instant of a wall-clock reading.  The wall clock is first
\* looked up as if it were UTC; the offset found is kept when the resulting
\* instant lies in that zone's interval and looked up again otherwise.
DateInLocation(wall) ==
    LET z == Lookup(wall)
    IN  IF z.offset # 0
        THEN LET utc == wall - z.offset
             IN  IF utc < z.start \/ utc >= z.end
                 THEN wall - Lookup(utc).offset
                 ELSE utc
        ELSE wall

DaysIn(mo) ==
    CASE mo = 2 -> 28
      [] mo \in {4, 6, 9, 11} -> 30
      [] OTHER -> 31

RECURSIVE DaysBefore(_)
DaysBefore(mo) == IF mo <= 1 THEN 0 ELSE DaysBefore(mo - 1) + DaysIn(mo - 1)

\* A timestamp text "DD-MM-2023 HH:MM" is the tuple <<DD, MM, HH, MM>> of its
\* numeric fields.  time.ParseInLocation("02-01-2006 15:04", sts, irelandTimezone):
\* range errors are parse errors.
TimeTextOk(sts) ==
    /\ sts[2] \in 1..12
    /\ sts[1] \in 1..DaysIn(sts[2])
    /\ sts[3] \in 0..23
    /\ sts[4] \in 0..59

ParseInLocation(sts) ==
    DateInLocation(((DaysBefore(sts[2]) + sts[1] - 1) * 24 + sts[3]) * MinutesPerHour + sts[4])

\* Time.Minute(): the wall-clock minute of an instant.
Minute(t) == (t + ZoneOffset(t)) % MinutesPerHour

(***************************************************************************)
(* strconv.ParseFloat on the value texts of the model: a text is the       *)
(* sequence of its characters; an optional sign, digits, and at most one   *)
(* point followed by at most three digits.                                 *)
(***************************************************************************)
Digits == <<"0", "1", "2", "3", "4", "5", "6", "7", "8", "9">>

IsDigit(c) == \E d \in 1..10 : Digits[d] = c

DigitValue(c) == (CHOOSE d \in 1..10 : Digits[d] = c) - 1

RECURSIVE Pow10(_)
Pow10(n) == IF n = 0 THEN 1 ELSE 10 * Pow10(n - 1)

RECURSIVE DigitsValue(_)
DigitsValue(s) ==
    IF s = <<>> THEN 0
    ELSE 10 * DigitsValue(SubSeq(s, 1, Len(s) - 1)) + DigitValue(s[Len(s)])

Unsigned(s) == IF s # <<>> /\ s[1] \in {"-", "+"} THEN Tail(s) ELSE s

PointAt(s) == IF \E i \in 1..Len(s) : s[i] = "."
              THEN CHOOSE i \in 1..Len(s) : s[i] = "."
              ELSE Len(s) + 1

FloatTextOk(sval) ==
    LET u == Unsigned(sval)
        p == PointAt(u)
    IN  /\ u # <<>>
        /\ Len(u) - p <= 3
        /\ Len(u) # 1 \/ p # 1
        /\ \A i \in 1..Len(u) : i # p => IsDigit(u[i])

ParseFloat(sval) ==
    LET u == Unsigned(sval)
        p == PointAt(u)
        int == DigitsValue(SubSeq(u, 1, p - 1))
        frac == SubSeq(u, p + 1, Len(u))
        mag == (int * 1000 + DigitsValue(frac) * Pow10(3 - Len(frac))) * (UnitsPerKW \div 1000)
    IN  IF sval[1] = "-" THEN 0 - mag ELSE mag

(***************************************************************************)
(* Errors.  An error is a record: its kind, the 1-based row index its      *)
(* message carries (NoLine when the message carries none) and the two      *)
(* values it quotes.                                                       *)
(***************************************************************************)
NoLine == 0

NoError == [kind |-> "nil", line |-> NoLine, got |-> "", want |-> ""]

Error(kind, line, got, want) == [kind |-> kind, line |-> line, got |-> got, want |-> want]

\* The zero time.Time (01-01-0001 00:00 UTC), which no parsed reading equals.
ZeroTime == 0 - (2022 * 365 + 490) * 1440

emptyResult == [MPRN |-> "", MeterSerialNumber |-> "", ReadTypes |-> "", Reads |-> <<>>]

(***************************************************************************)
(* parseLine and validateHeader.                                           *)
(***************************************************************************)
\* parseLine with the row index counted from zero in its messages.
parseLineZeroBased(lineNumber, record) ==
    LET line == [MPRN |-> record[1], SerialNumber |-> record[2], Value |-> 0, EndTime |-> ZeroTime]
    IN  IF record[4] # wantReadType
        THEN [line |-> line, err |-> Error("read type", lineNumber - 1, record[4], wantReadType)]
        ELSE IF ~FloatTextOk(record[3])
        THEN [line |-> line, err |-> Error("parse value", lineNumber - 1, "", "")]
        ELSE IF ~TimeTextOk(record[5])
        THEN [line |-> [line EXCEPT !.Value = ParseFloat(record[3])],
              err |-> Error("parse time", lineNumber - 1, "", "")]
        ELSE [line |-> [line EXCEPT !.Value = ParseFloat(record[3]),
                                    !.EndTime = ParseInLocation(record[5])],
              err |-> NoError]

\* parseLine(lineNumber, record): the read type is checked first, then the
\* value is parsed, then the timestamp.
parseLine(lineNumber, record) ==
    LET line == [MPRN |-> record[1], SerialNumber |-> record[2], Value |-> 0, EndTime |-> ZeroTime]
    IN  IF record[4] # wantReadType
        THEN [line |-> line, err |-> Error("read type", lineNumber, record[4], wantReadType)]
        ELSE IF ~FloatTextOk(record[3])
        THEN [line |-> line, err |-> Error("parse value", lineNumber, "", "")]
        ELSE IF ~TimeTextOk(record[5])
        THEN [line |-> [line EXCEPT !.Value = ParseFloat(record[3])],
              err |-> Error("parse time", lineNumber, "", "")]
        ELSE [line |-> [line EXCEPT !.Value = ParseFloat(record[3]),
                                    !.EndTime = ParseInLocation(record[5])],
              err |-> NoError]

\* The check of row i with the comparison of the serial numbers left out.
checkMeterMPRNOnly(i, r, line) ==
    IF i > 1 /\ r.MPRN # line.MPRN
    THEN Error("multiple MPRN", NoLine, r.MPRN, line.MPRN)
    ELSE NoError

\* HDF's check of row i against the identifiers of the first row.
checkMeter(i, r, line) ==
    IF i > 1 /\ r.MPRN # line.MPRN
    THEN Error("multiple MPRN", NoLine, r.MPRN, line.MPRN)
    ELSE IF i > 1 /\ r.MeterSerialNumber # line.SerialNumber
    THEN Error("multiple serial numbers", NoLine, r.MeterSerialNumber, line.SerialNumber)
    ELSE NoError

\* The first field of the header that differs from headerFormat (0-based, as the
\* message prints it); only used when one differs.
FirstHeaderDiff(h) == CHOOSE i \in 1..Len(headerFormat) :
    /\ h[i] # headerFormat[i]
    /\ \A j \in 1..(i - 1) : h[j] = headerFormat[j]

\* validateHeader(r): h is the first record csv.Reader returns, <<>> when the
\* input is empty (io.EOF).
validateHeader(h) ==
    IF h = <<>> THEN Error("cannot read header", NoLine, "", "")
    ELSE IF Len(h) # Len(headerFormat) THEN Error("header length", NoLine, "", "")
    ELSE IF \E i \in 1..Len(headerFormat) : h[i] # headerFormat[i]
    THEN Error("header record", NoLine, h[FirstHeaderDiff(h)], headerFormat[FirstHeaderDiff(h)])
    ELSE NoError

(***************************************************************************)
(* Reversal, fixTimezone, splitTimes.                                      *)
(***************************************************************************)
\* The reversal loop without its j--: the last reading moves to the front.
ReverseNoDecrement(s) ==
    IF s = <<>> THEN <<>> ELSE <<s[Len(s)]>> \o SubSeq(s, 1, Len(s) - 1)

RECURSIVE Reverse(_)
Reverse(s) == IF s = <<>> THEN <<>> ELSE Append(Reverse(Tail(s)), Head(s))

\* The iteration with the first case testing for an entry one hour later
\* instead of an equal one.
fixTimezoneAtHourLater(reads, k) ==
    LET max == Len(reads)
        ct == reads[k].EndTime
    IN  IF ZoneName(ct) # "GMT" THEN reads
        ELSE IF k + 2 <= max
        THEN IF reads[k + 2].EndTime - ct = MinutesPerHour
             THEN [reads EXCEPT ![k].EndTime = ct - MinutesPerHour]
             ELSE reads
        ELSE IF k - 2 >= 1
        THEN LET fix == reads[k - 2].EndTime + MinutesPerHour
             IN  IF ZoneOffset(fix) # ZoneOffset(ct)
                 THEN [reads EXCEPT ![k].EndTime = fix]
                 ELSE reads
        ELSE reads

\* The iteration with the test of the first case negated.
fixTimezoneAtNotEqual(reads, k) ==
    LET max == Len(reads)
        ct == reads[k].EndTime
    IN  IF ZoneName(ct) # "GMT" THEN reads
        ELSE IF k + 2 <= max
        THEN IF reads[k + 2].EndTime # ct
             THEN [reads EXCEPT ![k].EndTime = ct - MinutesPerHour]
             ELSE reads
        ELSE IF k - 2 >= 1
        THEN LET fix == reads[k - 2].EndTime + MinutesPerHour
             IN  IF ZoneOffset(fix) # ZoneOffset(ct)
                 THEN [reads EXCEPT ![k].EndTime = fix]
                 ELSE reads
        ELSE reads

\* The iteration with the second case looking one position back, not two.
fixTimezoneAtPrevious(reads, k) ==
    LET max == Len(reads)
        ct == reads[k].EndTime
    IN  IF ZoneName(ct) # "GMT" THEN reads
        ELSE IF k + 2 <= max
        THEN IF reads[k + 2].EndTime = ct
             THEN [reads EXCEPT ![k].EndTime = ct - MinutesPerHour]
             ELSE reads
        ELSE IF k - 1 >= 1
        THEN LET fix == reads[k - 1].EndTime + MinutesPerHour
             IN  IF ZoneOffset(fix) # ZoneOffset(ct)
                 THEN [reads EXCEPT ![k].EndTime = fix]
                 ELSE reads
        ELSE reads

\* One iteration of fixTimezone's loop, for the 1-based position k (i = k - 1).
fixTimezoneAt(reads, k) ==
    LET max == Len(reads)
        ct == reads[k].EndTime
    IN  IF ZoneName(ct) # "GMT" THEN reads
        ELSE IF k + 2 <= max
        THEN IF reads[k + 2].EndTime = ct
             THEN [reads EXCEPT ![k].EndTime = ct - MinutesPerHour]
             ELSE reads
        ELSE IF k - 2 >= 1
        THEN LET fix == reads[k - 2].EndTime + MinutesPerHour
             IN  IF ZoneOffset(fix) # ZoneOffset(ct)
                 THEN [reads EXCEPT ![k].EndTime = fix]
                 ELSE reads
        ELSE reads

RECURSIVE fixTimezoneFrom(_, _)
fixTimezoneFrom(reads, k) ==
    IF k > Len(reads) THEN reads ELSE fixTimezoneFrom(fixTimezoneAt(reads, k), k + 1)

\* fixTimezone(res): the loop runs in place, position by position.
fixTimezone(reads) == fixTimezoneFrom(reads, 1)

\* The positions at which the loop takes the default case and writes
\* "Too little data to attempt fix timezone" to the log.
TooLittleData(reads) ==
    {k \in 1..Len(reads) :
        ZoneName(reads[k].EndTime) = "GMT" /\ ~(k + 2 <= Len(reads)) /\ ~(k - 2 >= 1)}

\* isHalfSharp without the test of the minute.
isHalfSharpNoMinute(ts) == ts = ts

\* isHalfSharp(ts): nil (TRUE) when the minute is 0 or 30.  Seconds and
\* nanoseconds are zero for every reading, the layout carrying neither.
isHalfSharp(ts) == Minute(ts) = 0 \/ Minute(ts) = HalfHour

\* The loop of splitTimes without the default case: a gap opens no new block.
RECURSIVE splitTimesFromNoGap(_, _, _, _)
splitTimesFromNoGap(r0, k, rr, lastTs) ==
    IF k > Len(r0.Reads) THEN [rr |-> rr, err |-> NoError]
    ELSE LET r == r0.Reads[k]
             ts == r.EndTime
             m == ts - lastTs
         IN  IF ~(Minute(ts) = 0 \/ Minute(ts) = HalfHour)
             THEN [rr |-> <<>>, err |-> Error("not aligned", NoLine, "", "")]
             ELSE IF lastTs # ZeroTime /\ m # HalfHour /\ m <= 0
             THEN [rr |-> rr, err |-> Error("not sorted", NoLine, "", "")]
             ELSE splitTimesFromNoGap(r0, k + 1,
                                      [rr EXCEPT ![Len(rr)].Reads = Append(@, r)], ts)

\* The loop of splitTimes putting into a block only the readings that follow
\* the one that opened it.
RECURSIVE splitTimesFromDropFirst(_, _, _, _)
splitTimesFromDropFirst(r0, k, rr, lastTs) ==
    IF k > Len(r0.Reads) THEN [rr |-> rr, err |-> NoError]
    ELSE LET r == r0.Reads[k]
             ts == r.EndTime
             m == ts - lastTs
         IN  IF ~(Minute(ts) = 0 \/ Minute(ts) = HalfHour)
             THEN [rr |-> <<>>, err |-> Error("not aligned", NoLine, "", "")]
             ELSE IF lastTs # ZeroTime /\ m # HalfHour /\ m <= 0
             THEN [rr |-> rr, err |-> Error("not sorted", NoLine, "", "")]
             ELSE IF lastTs # ZeroTime /\ m # HalfHour
             THEN splitTimesFromDropFirst(r0, k + 1,
                                          Append(rr, [r0 EXCEPT !.Reads = <<>>]), ts)
             ELSE splitTimesFromDropFirst(r0, k + 1,
                                          [rr EXCEPT ![Len(rr)].Reads = Append(@, r)], ts)

RECURSIVE splitTimesFrom(_, _, _, _)
splitTimesFrom(r0, k, rr, lastTs) ==
    IF k > Len(r0.Reads) THEN [rr |-> rr, err |-> NoError]
    ELSE LET r == r0.Reads[k]
             ts == r.EndTime
             m == ts - lastTs
         IN  IF ~isHalfSharp(ts)
             THEN [rr |-> <<>>, err |-> Error("not aligned", NoLine, "", "")]
             ELSE IF lastTs # ZeroTime /\ m # HalfHour /\ m <= 0
             THEN [rr |-> rr, err |-> Error("not sorted", NoLine, "", "")]
             ELSE LET rr2 == IF lastTs # ZeroTime /\ m # HalfHour
                             THEN Append(rr, [r0 EXCEPT !.Reads = <<>>])
                             ELSE rr
                  IN  splitTimesFrom(r0, k + 1,
                                     [rr2 EXCEPT ![Len(rr2)].Reads = Append(@, r)], ts)

\* splitTimes(res): the blocks and the error it returns.
splitTimes(r0) == splitTimesFrom(r0, 1, <<[r0 EXCEPT !.Reads = <<>>]>>, ZeroTime)

(***************************************************************************)
(* parse.Translate.                                                        *)
(***************************************************************************)
\* Time.Round(time.Hour): to the nearest hour, halves up.
RoundHour(t) ==
    LET r == t % MinutesPerHour
    IN  IF r + r < MinutesPerHour THEN t - r ELSE t + MinutesPerHour - r

\* isRound rounding to the half hour.
isRoundHalfHour(t) == t % HalfHour = 0

\* isRound(t)
isRound(t) == RoundHour(t) = t

\* The loop of Translate emitting when the count of readings consumed is even.
RECURSIVE TranslateFromEvenCount(_, _, _, _, _, _, _)
TranslateFromEvenCount(reads, k, tsValidator, sum, value, stats, consumed) ==
    IF k > Len(reads)
    THEN [outcome |-> "ok", err |-> NoError, Stats |-> stats, consumed |-> consumed]
    ELSE LET r == reads[k]
         IN  IF r.EndTime - tsValidator # HalfHour
             THEN [outcome |-> "error", err |-> Error("not 30 minutes", NoLine, "", ""),
                   Stats |-> stats, consumed |-> consumed]
             ELSE LET v == value + r.Value \div 2
                  IN  IF k % 2 = 0
                      THEN TranslateFromEvenCount(reads, k + 1, r.EndTime, sum + v, 0,
                               Append(stats, [Start |-> reads[k - 1].EndTime,
                                              State |-> v, Sum |-> sum + v]),
                               Append(consumed, k))
                      ELSE TranslateFromEvenCount(reads, k + 1, r.EndTime, sum, v, stats,
                                                  consumed)

\* The loop of Translate with the accumulator assigned, not added to.
RECURSIVE TranslateFromSumAssigned(_, _, _, _, _, _, _)
TranslateFromSumAssigned(reads, k, tsValidator, sum, value, stats, consumed) ==
    IF k > Len(reads)
    THEN [outcome |-> "ok", err |-> NoError, Stats |-> stats, consumed |-> consumed]
    ELSE LET r == reads[k]
             i == k - 1
         IN  IF r.EndTime - tsValidator # HalfHour
             THEN [outcome |-> "error", err |-> Error("not 30 minutes", NoLine, "", ""),
                   Stats |-> stats, consumed |-> consumed]
             ELSE LET v == value + r.Value \div 2
                  IN  IF i % 2 = 0 /\ i > 0
                      THEN TranslateFromSumAssigned(reads, k + 1, r.EndTime, v, 0,
                               Append(stats, [Start |-> reads[k - 1].EndTime,
                                              State |-> v, Sum |-> v]),
                               Append(consumed, k))
                      ELSE TranslateFromSumAssigned(reads, k + 1, r.EndTime, sum, v, stats,
                                                    consumed)

\* The loop of Translate emitting what is left in value when the readings end.
RECURSIVE TranslateFromFlush(_, _, _, _, _, _, _)
TranslateFromFlush(reads, k, tsValidator, sum, value, stats, consumed) ==
    IF k > Len(reads)
    THEN [outcome |-> "ok", err |-> NoError,
          Stats |-> IF value = 0 THEN stats
                    ELSE Append(stats, [Start |-> reads[k - 1].EndTime,
                                        State |-> value, Sum |-> sum + value]),
          consumed |-> IF value = 0 THEN consumed ELSE Append(consumed, k - 1)]
    ELSE LET r == reads[k]
             i == k - 1
         IN  IF r.EndTime - tsValidator # HalfHour
             THEN [outcome |-> "error", err |-> Error("not 30 minutes", NoLine, "", ""),
                   Stats |-> stats, consumed |-> consumed]
             ELSE LET v == value + r.Value \div 2
                  IN  IF i % 2 = 0 /\ i > 0
                      THEN TranslateFromFlush(reads, k + 1, r.EndTime, sum + v, 0,
                               Append(stats, [Start |-> reads[k - 1].EndTime,
                                              State |-> v, Sum |-> sum + v]),
                               Append(consumed, k))
                      ELSE TranslateFromFlush(reads, k + 1, r.EndTime, sum, v, stats,
                                              consumed)

\* The loop of Translate without value = 0 after an emission.
RECURSIVE TranslateFromNoReset(_, _, _, _, _, _, _)
TranslateFromNoReset(reads, k, tsValidator, sum, value, stats, consumed) ==
    IF k > Len(reads)
    THEN [outcome |-> "ok", err |-> NoError, Stats |-> stats, consumed |-> consumed]
    ELSE LET r == reads[k]
             i == k - 1
         IN  IF r.EndTime - tsValidator # HalfHour
             THEN [outcome |-> "error", err |-> Error("not 30 minutes", NoLine, "", ""),
                   Stats |-> stats, consumed |-> consumed]
             ELSE LET v == value + r.Value \div 2
                  IN  IF i % 2 = 0 /\ i > 0
                      THEN TranslateFromNoReset(reads, k + 1, r.EndTime, sum + v, v,
                               Append(stats, [Start |-> reads[k - 1].EndTime,
                                              State |-> v, Sum |-> sum + v]),
                               Append(consumed, k))
                      ELSE TranslateFromNoReset(reads, k + 1, r.EndTime, sum, v, stats,
                                                consumed)

\* The loop of Translate with Start taken from the reading that triggers the
\* emission.
RECURSIVE TranslateFromStartAtTrigger(_, _, _, _, _, _, _)
TranslateFromStartAtTrigger(reads, k, tsValidator, sum, value, stats, consumed) ==
    IF k > Len(reads)
    THEN [outcome |-> "ok", err |-> NoError, Stats |-> stats, consumed |-> consumed]
    ELSE LET r == reads[k]
             i == k - 1
         IN  IF r.EndTime - tsValidator # HalfHour
             THEN [outcome |-> "error", err |-> Error("not 30 minutes", NoLine, "", ""),
                   Stats |-> stats, consumed |-> consumed]
             ELSE LET v == value + r.Value \div 2
                  IN  IF i % 2 = 0 /\ i > 0
                      THEN TranslateFromStartAtTrigger(reads, k + 1, r.EndTime, sum + v, 0,
                               Append(stats, [Start |-> r.EndTime,
                                              State |-> v, Sum |-> sum + v]),
                               Append(consumed, k))
                      ELSE TranslateFromStartAtTrigger(reads, k + 1, r.EndTime, sum, v,
                                                       stats, consumed)

\* The loop of Translate over the retained readings, from 1-based position k
\* (i = k - 1).  consumed records, for every StatisticValue appended, how many
\* readings the loop had consumed when it appended it.
RECURSIVE TranslateFrom(_, _, _, _, _, _, _)
TranslateFrom(reads, k, tsValidator, sum, value, stats, consumed) ==
    IF k > Len(reads)
    THEN [outcome |-> "ok", err |-> NoError, Stats |-> stats, consumed |-> consumed]
    ELSE LET r == reads[k]
             i == k - 1
         IN  IF r.EndTime - tsValidator # HalfHour
             THEN [outcome |-> "error", err |-> Error("not 30 minutes", NoLine, "", ""),
                   Stats |-> stats, consumed |-> consumed]
             ELSE LET v == value + r.Value \div 2
                  IN  IF i % 2 = 0 /\ i > 0
                      THEN TranslateFrom(reads, k + 1, r.EndTime, sum + v, 0,
                               Append(stats, [Start |-> reads[k - 1].EndTime,
                                              State |-> v, Sum |-> sum + v]),
                               Append(consumed, k))
                      ELSE TranslateFrom(reads, k + 1, r.EndTime, sum, v, stats, consumed)

\* Translate(raw).  With a single reading that lies on the hour nothing is left
\* after the trim and reads[0] is an index out of range: a run-time panic.
Translate(raw) ==
    IF Len(raw.Reads) = 0
    THEN [outcome |-> "error", err |-> Error("not enough data", NoLine, "", ""),
          Stats |-> <<>>, consumed |-> <<>>]
    ELSE LET reads == IF isRound(raw.Reads[1].EndTime) THEN Tail(raw.Reads) ELSE raw.Reads
         IN  IF reads = <<>>
             THEN [outcome |-> "panic", err |-> Error("index out of range", NoLine, "", ""),
                   Stats |-> <<>>, consumed |-> <<>>]
             ELSE TranslateFrom(reads, 1, reads[1].EndTime - HalfHour, 0, 0, <<>>, <<>>)

\* The readings Translate retains after its leading trim.
Retained(raw) ==
    IF raw.Reads # <<>> /\ isRound(raw.Reads[1].EndTime) THEN Tail(raw.Reads) ELSE raw.Reads

NoStat == [outcome |-> "none", err |-> NoError, Stats |-> <<>>, consumed |-> <<>>]

(***************************************************************************)
(* The inputs of the model.                                                *)
(***************************************************************************)
\* "uniform" is a well-formed export: every row is 30 minutes before the row
\* above it.  The other exports carry their rows in any order.
\* "holes" is a well-formed export with at most one hole: every row is 30
\* minutes before the row above it, but for one that is HoleMinutes before.
Datasets == {"uniform", "holes", "winter", "autumn", "autumn gap", "spring"}

RowLimit(d) ==
    CASE d = "uniform" -> MaxUniformRows
      [] d = "holes" -> MaxHolesRows
      [] OTHER -> MaxRows

HoleMinutes == 6 * HalfHour

\* The wall-clock minutes of a timestamp text, and the text of wall-clock minutes.
Wall(sts) == ((DaysBefore(sts[2]) + sts[1] - 1) * 24 + sts[3]) * 60 + sts[4]

TimeText(wall) ==
    LET doy == wall \div 1440
        mo == CHOOSE m \in 1..12 : DaysBefore(m) <= doy /\ doy < DaysBefore(m) + DaysIn(m)
    IN  <<doy - DaysBefore(mo) + 1, mo, (wall % 1440) \div 60, wall % 60>>

\* The timestamp texts an export can carry.
TimeTexts(d) ==
    CASE d = "uniform" -> {<<16, 1, 0, 30>>, <<16, 1, 0, 0>>}
      [] d = "holes" -> {<<20, 1, 11, 30>>}
      [] d = "winter" ->
           {<<15, 1, 22, 30>>, <<15, 1, 23, 0>>, <<15, 1, 23, 30>>, <<15, 1, 23, 33>>,
            <<20, 1, 0, 0>>}
      [] d = "autumn" ->
           {<<29, 10, 0, 0>>, <<29, 10, 0, 30>>, <<29, 10, 1, 0>>, <<29, 10, 1, 30>>,
            <<29, 10, 2, 0>>}
      [] d = "autumn gap" ->
           {<<28, 10, 10, 0>>, <<28, 10, 10, 30>>, <<30, 10, 10, 0>>, <<30, 10, 10, 30>>}
      [] d = "spring" ->
           {<<26, 3, 0, 0>>, <<26, 3, 0, 30>>, <<26, 3, 1, 30>>, <<26, 3, 2, 0>>,
            <<26, 3, 2, 30>>}

\* The value texts an export can carry.
ValueTexts(d) ==
    IF d \in {"uniform", "holes", "winter"} THEN {<<"0", ".", "2">>, <<"0", ".", "4", "0", "0">>}
    ELSE IF d = "autumn gap" THEN {<<"0", ".", "1">>, <<"-", "0", ".", "1">>}
    ELSE {<<"0", ".", "1">>}

SomeTime(d) == CHOOSE t \in TimeTexts(d) : \A u \in TimeTexts(d) : ParseInLocation(t) <= ParseInLocation(u)

SomeValue(d) == CHOOSE v \in ValueTexts(d) : TRUE

\* The well-formed records that can follow the records f read so far.
GoodRecords(d, f) ==
    LET prev == Wall(f[Len(f)][5])
        whole == \A k \in 1..(Len(f) - 1) : Wall(f[k][5]) - Wall(f[k + 1][5]) = HalfHour
        times == IF d = "uniform" /\ f # <<>>
                 THEN {TimeText(prev - HalfHour)}
                 ELSE IF d = "holes" /\ f # <<>>
                 THEN {TimeText(prev - HalfHour)} \cup
                      (IF whole THEN {TimeText(prev - HoleMinutes)} ELSE {})
                 ELSE TimeTexts(d)
    IN  {<<"123", "45", v, wantReadType, t>> : v \in ValueTexts(d), t \in times}

\* The records of TestHDF_Errors: wrong read type, unparsable value, unparsable
\* timestamp, missing field, different MPRN, different serial number.
BadRecords(d) ==
    {<<"123", "45", SomeValue(d), "WRONG", SomeTime(d)>>,
     <<"123", "45", <<"N", "O">>, wantReadType, SomeTime(d)>>,
     <<"123", "45", SomeValue(d), wantReadType, <<15, 7, 99, 99>>>>,
     <<"123", "45", SomeValue(d), wantReadType>>,
     <<"321", "45", SomeValue(d), wantReadType, SomeTime(d)>>,
     <<"123", "00", SomeValue(d), wantReadType, SomeTime(d)>>}

Records(d, f) == GoodRecords(d, f) \cup BadRecords(d)

\* The first records of TestHDF_Errors: none (empty file), the expected header,
\* a long header, a renamed column.
Headers ==
    {<<>>,
     headerFormat,
     Append(headerFormat, "EXTRA"),
     <<"MPRN", "Meter Serial Number", "Read Value", "Read Type", "DIFFERENT">>}

\* What connecting to Home Assistant and sending one batch can come to.
HaOutcomes == {"ok", "dial failed", "login failed", "send failed"}

(***************************************************************************)
(* The flags of the subcommands.                                           *)
(***************************************************************************)
Commands == {"download", "upload", "pipe"}

\* SetFlags of downloadCmd, uploadCmd and pipeCmd: the flags each registers.
Flags(c) ==
    CASE c = "download" -> {"esb_user", "esb_password", "mprn"}
      [] c = "upload" -> {"ha_server", "ha_token", "ha_sensor"}
      [] c = "pipe" -> {"ha_server", "ha_token", "ha_sensor", "esb_user", "esb_password", "mprn"}

\* flagsFromEnv with the test of the flag's value left out: the environment
\* variable always wins.
flagsFromEnvAlways(f, e) == [n \in DOMAIN f |-> e[n]]

\* flagsFromEnv(f): every flag whose value is "" is set to os.Getenv of its name.
flagsFromEnv(f, e) == [n \in DOMAIN f |-> IF f[n] = "" THEN e[n] ELSE f[n]]

\* ensureFlagsAreSet(f): the flags after flagsFromEnv and the names still "".
ensureFlagsAreSet(f, e) ==
    LET set == flagsFromEnv(f, e)
    IN  [flags |-> set, missing |-> {n \in DOMAIN set : set[n] = ""}]

(***************************************************************************)
(* esblib.Client.  A response is its status, its body and the number of    *)
(* requests the http.Client sent to obtain it.                             *)
(***************************************************************************)
\* The most calls of Login and DownloadPowerConsumption on one Client.
MaxCalls == 4

StatusOK == 200

StatusFound == 302

StatusNotFound == 404

\* http.Client.Get on the data URL, the server answering with status: a
\* client that follows redirects answers a 302 with a second request, to the
\* login page the server redirects to.
Get(followRedirects, status) ==
    IF followRedirects /\ status = StatusFound
    THEN [status |-> StatusOK, body |-> "login page", requests |-> 2]
    ELSE [status |-> status,
          body |-> (IF status = StatusOK THEN "hdf" ELSE "page"),
          requests |-> 1]

\* c.hc.Get: the client without CheckRedirect.
hcGet(status) == Get(TRUE, status)

\* c.noRedirect.Get: CheckRedirect returns http.ErrUseLastResponse.
noRedirectGet(status) == Get(FALSE, status)

\* What the server answers to a request for the data of mprn.
ServerStatuses(loggedIn, mprn) ==
    IF ~loggedIn THEN {StatusFound}
    ELSE IF mprn = "unknown" THEN {StatusNotFound}
    ELSE {StatusOK, 500}

NoOutput ==
    [mprn |-> "", loggedIn |-> FALSE, reached |-> FALSE, status |-> 0,
     requests |-> 0, data |-> "", err |-> "none"]

\* DownloadPowerConsumption(mprn), given whether the request reaches the
\* server, the status the server answers with and whether the body can be read.
DownloadPowerConsumption(mprn, reached, status, readOk) ==
    LET rsp == noRedirectGet(status)
        failed(e, n) == [data |-> "", err |-> e, requests |-> n]
    IN  IF mprn = "" THEN failed("missing mprn", 0)
        ELSE IF ~reached THEN failed("Get failed", 1)
        ELSE IF rsp.status = StatusOK
        THEN IF readOk
             THEN [data |-> rsp.body, err |-> "nil", requests |-> rsp.requests]
             ELSE failed("ReadAll failed", rsp.requests)
        ELSE IF rsp.status = StatusFound
        THEN failed("login expired or invalid", rsp.requests)
        ELSE IF rsp.status = StatusNotFound
        THEN failed("not found", rsp.requests)
        ELSE failed("status", rsp.requests)

\* NewClient(): a Client with an empty cookie jar.
NewClient ==
    /\ session = FALSE
    /\ calls = 0
    /\ sent = 0
    /\ out = NoOutput

(***************************************************************************)
(* Package ha: the websocket connection to Home Assistant.                 *)
(***************************************************************************)
MaxSends == 3

\* msgID of a new Connection.
FirstMessageID == 42

\* A message of the server as the decoders see it: the fields type,
\* ha_version, id and success, with the zero value for a field it lacks.
Message(type, version, id, success) ==
    [MessageType |-> type, HAVersion |-> version, ID |-> id, Success |-> success]

ZeroMessage == Message("", "", 0, FALSE)

\* What wsjson.Read returns: an error, or one of the messages.
Reads(messages) ==
    {[ok |-> FALSE, msg |-> ZeroMessage]} \cup {[ok |-> TRUE, msg |-> m] : m \in messages}

\* What the server may send while the client logs in.
AuthMessages ==
    {Message(type, version, 0, FALSE) :
        type \in {"auth_required", "auth_ok", "auth_invalid"}, version \in {"", "2023.1"}}

\* What the server may send after a request with the given id.
Responses(id) ==
    {Message(type, "", i, success) :
        type \in {"result", "pong"}, i \in {id - 1, id, id + 1}, success \in BOOLEAN}

NoConnection == [ws |-> "none", msgID |-> 0, ServerVersion |-> ""]

\* c.Close()
Close(c) == [c EXCEPT !.ws = "closed"]

\* c.incMessageID(): the id to use and the connection afterwards.
incMessageID(c) == [r |-> c.msgID, c |-> [c EXCEPT !.msgID = @ + 1]]

\* login not looking at ha_version.
loginAuthRequiredAnyVersion(rd) ==
    IF ~rd.ok THEN "read"
    ELSE IF rd.msg.MessageType # "auth_required" THEN "expected auth_required"
    ELSE "nil"

\* login, up to the first message: the error it returns, "nil" to go on.
loginAuthRequired(rd) ==
    IF ~rd.ok THEN "read"
    ELSE IF rd.msg.HAVersion = "" THEN "cannot get home assistant version"
    ELSE IF rd.msg.MessageType # "auth_required" THEN "expected auth_required"
    ELSE "nil"

\* login, the answer to the access token: the error it returns.
loginAuthOk(rd) ==
    IF ~rd.ok THEN "read"
    ELSE IF rd.msg.MessageType # "auth_ok" THEN "invalid auth"
    ELSE "nil"

\* waitResponse not comparing the id.
waitResponseAnyID(rd, id) ==
    IF ~rd.ok THEN "read"
    ELSE IF rd.msg.MessageType # "result" \/ ~rd.msg.Success THEN "error"
    ELSE "nil"

\* c.waitResponse(ctx, id): the error it returns.
waitResponse(rd, id) ==
    IF ~rd.ok THEN "read"
    ELSE IF rd.msg.ID # id THEN "protocol out of sync"
    ELSE IF rd.msg.MessageType # "result" \/ ~rd.msg.Success THEN "error"
    ELSE "nil"

\* Before NewConnection.
HaStart ==
    /\ hpc = "dial"
    /\ conn = NoConnection
    /\ wire = <<>>
    /\ hello = <<>>
    /\ hret = "none"
    /\ sends = <<>>

(***************************************************************************)
(* The state machine.                                                      *)
(***************************************************************************)
\* parseAndUpload before it calls HDF on the export d.
ParseStart(d) ==
    /\ header = <<>>
    /\ pc = "header"
    /\ dataset = d
    /\ file = <<>>
    /\ res = emptyResult
    /\ parsed = <<>>
    /\ err = NoError
    /\ idx = 0
    /\ stat = NoStat
    /\ uploads = <<>>
    /\ open = 0
    /\ logged = 0
    /\ ret = "none"

\* The upload command with its flags given on the command line, at the call
\* of parseAndUpload.
UploadStart ==
    /\ cmd = "upload"
    /\ cli = [n \in Flags("upload") |-> "cli"]
    /\ env = [n \in Flags("upload") |-> ""]
    /\ flags = cli
    /\ cpc = "parse"
    /\ cret = "none"
    /\ attempted = {"parse"}

Init == UploadStart /\ NewClient /\ HaStart /\ \E d \in Datasets : ParseStart(d)

\* HDF returns (nil, e); parseAndUpload prints it and returns ExitFailure.
Fail(rr, e) ==
    /\ pc' = "failed"
    /\ parsed' = rr
    /\ err' = e
    /\ ret' = "ExitFailure"

\* HDF: validateHeader.
ValidateHeader ==
    /\ pc = "header"
    /\ \E h \in Headers :
        /\ header' = h
        /\ IF validateHeader(h) # NoError
           THEN Fail(<<>>, validateHeader(h))
           ELSE /\ pc' = "rows"
                /\ UNCHANGED <<parsed, err, ret>>
    /\ UNCHANGED <<dataset, file, res, idx, stat, uploads, open, logged>>
    /\ UNCHANGED <<cliVars, esbVars, haVars>>

\* HDF: one iteration of the read loop, csv.Reader returning a record.  The
\* reader requires of every record the field count of the first one.
ReadRow ==
    /\ pc = "rows"
    /\ Len(file) < RowLimit(dataset)
    /\ \E record \in Records(dataset, file) :
        LET i == Len(file) + 1
        IN  /\ file' = Append(file, record)
            /\ IF Len(record) # Len(header)
               THEN /\ Fail(<<>>, Error("wrong number of fields", i + 1, "", ""))
                    /\ UNCHANGED res
               ELSE LET pl == parseLine(i, record)
                        line == pl.line
                    IN  IF pl.err # NoError
                        THEN /\ Fail(<<>>, pl.err)
                             /\ UNCHANGED res
                        ELSE IF checkMeter(i, res, line) # NoError
                        THEN /\ Fail(<<>>, checkMeter(i, res, line))
                             /\ UNCHANGED res
                        ELSE /\ res' = [MPRN |-> IF i = 1 THEN line.MPRN ELSE res.MPRN,
                                        MeterSerialNumber |->
                                            IF i = 1 THEN line.SerialNumber
                                            ELSE res.MeterSerialNumber,
                                        ReadTypes |-> IF i = 1 THEN wantReadType ELSE res.ReadTypes,
                                        Reads |-> Append(res.Reads,
                                            [Value |-> line.Value, EndTime |-> line.EndTime])]
                             /\ UNCHANGED <<pc, parsed, err, ret>>
    /\ UNCHANGED <<header, dataset, idx, stat, uploads, open, logged>>
    /\ UNCHANGED <<cliVars, esbVars, haVars>>

\* HDF: csv.Reader returns io.EOF; the readings are reversed, fixTimezone runs,
\* and splitTimes decides what HDF returns.  parseAndUpload then fails on an
\* error or on an empty list of blocks, and otherwise starts its loop.
ReadEOF ==
    /\ pc = "rows"
    /\ LET fixed == [res EXCEPT !.Reads = fixTimezone(Reverse(res.Reads))]
           split == splitTimes(fixed)
       IN  /\ res' = fixed
           /\ IF split.err # NoError
              THEN Fail(split.rr, split.err)
              ELSE IF Len(split.rr) = 0
              THEN Fail(split.rr, NoError)
              ELSE /\ pc' = "upload"
                   /\ parsed' = split.rr
                   /\ ret' = "ExitSuccess"
                   /\ UNCHANGED err
    /\ logged' = Cardinality(TooLittleData(Reverse(res.Reads)))
    /\ UNCHANGED <<header, dataset, file, idx, stat, uploads, open>>
    /\ UNCHANGED <<cliVars, esbVars, haVars>>

\* parseAndUpload: one iteration of the loop over the blocks, that is one call
\* of upload: Translate, NewConnection, SendStatistics.  The connection upload
\* obtains is not closed by it.
Upload ==
    /\ pc = "upload"
    /\ idx < Len(parsed)
    /\ LET t == Translate(parsed[idx + 1])
           last == idx + 1 = Len(parsed)
       IN  /\ stat' = t
           /\ idx' = idx + 1
           /\ IF t.outcome = "panic"
              THEN /\ pc' = "panicked"
                   /\ UNCHANGED <<uploads, open, ret>>
              ELSE IF t.outcome = "error"
              THEN /\ pc' = IF last THEN "done" ELSE "upload"
                   /\ uploads' = Append(uploads, "cannot parse data")
                   /\ ret' = "ExitFailure"
                   /\ UNCHANGED open
              ELSE \E ha \in HaOutcomes :
                   /\ pc' = IF last THEN "done" ELSE "upload"
                   /\ uploads' = Append(uploads, ha)
                   /\ open' = IF ha \in {"ok", "send failed"} THEN open + 1 ELSE open
                   /\ ret' = IF ha = "ok" THEN ret ELSE "ExitFailure"
    /\ UNCHANGED <<header, dataset, file, res, parsed, err, logged>>
    /\ UNCHANGED <<cliVars, esbVars, haVars>>

Next == ValidateHeader \/ ReadRow \/ ReadEOF \/ Upload

Spec == Init /\ [][Next]_vars

(***************************************************************************)
(* The subcommands: Execute of downloadCmd, uploadCmd and pipeCmd, with    *)
(* download and parseAndUpload as single steps.                            *)
(***************************************************************************)
CliInit ==
    /\ cmd \in Commands
    /\ cli \in [Flags(cmd) -> {"", "cli"}]
    /\ env \in [Flags(cmd) -> {"", "env"}]
    /\ flags = cli
    /\ cpc = "start"
    /\ cret = "none"
    /\ attempted = {}
    /\ ParseStart("uniform")
    /\ NewClient
    /\ HaStart

\* Execute: ensureFlagsAreSet, and ExitUsageError when a flag is missing.
EnsureFlags ==
    /\ cpc = "start"
    /\ LET ensured == ensureFlagsAreSet(flags, env)
       IN  /\ flags' = ensured.flags
           /\ IF ensured.missing # {}
              THEN cpc' = "done" /\ cret' = "ExitUsageError"
              ELSE /\ cpc' = (IF cmd = "upload" THEN "parse" ELSE "download")
                   /\ UNCHANGED cret
    /\ UNCHANGED <<cmd, cli, env, attempted, hdfVars, esbVars, haVars>>

\* downloadCmd.Execute and pipeCmd.Execute: download() and what follows it.
Download ==
    /\ cpc = "download"
    /\ attempted' = attempted \cup {"download"}
    /\ \E ok \in BOOLEAN :
        IF ~ok THEN cpc' = "done" /\ cret' = "ExitFailure"
        ELSE IF cmd = "download"
        THEN cpc' = "done" /\ cret' \in {"ExitSuccess", "ExitFailure"}
        ELSE cpc' = "parse" /\ UNCHANGED cret
    /\ UNCHANGED <<cmd, cli, env, flags, hdfVars, esbVars, haVars>>

\* uploadCmd.Execute and pipeCmd.Execute: parseAndUpload, which uploads when
\* HDF returns blocks.
ParseAndUpload ==
    /\ cpc = "parse"
    /\ cpc' = "done"
    /\ \E parsedOk \in BOOLEAN :
        /\ attempted' = attempted \cup (IF parsedOk THEN {"parse", "upload"} ELSE {"parse"})
        /\ cret' \in (IF parsedOk THEN {"ExitSuccess", "ExitFailure"} ELSE {"ExitFailure"})
    /\ UNCHANGED <<cmd, cli, env, flags, hdfVars, esbVars, haVars>>

CliNext == EnsureFlags \/ Download \/ ParseAndUpload

CliSpec == CliInit /\ [][CliNext]_vars

(***************************************************************************)
(* A program that uses an esblib.Client: calls of Login and of             *)
(* DownloadPowerConsumption in any order, the login expiring in between.   *)
(***************************************************************************)
EsbInit == NewClient /\ UploadStart /\ HaStart /\ ParseStart("uniform")

\* Login(user, password): the four requests of the login succeed or not.
Login ==
    /\ calls < MaxCalls
    /\ calls' = calls + 1
    /\ \E user \in {"", "u"}, password \in {"", "p"}, ok \in BOOLEAN :
        session' = IF user # "" /\ password # "" /\ ok THEN TRUE ELSE session
    /\ UNCHANGED <<sent, out, hdfVars, cliVars, haVars>>

\* The login expires (after some 20 minutes).
Expire ==
    /\ session
    /\ session' = FALSE
    /\ UNCHANGED <<calls, sent, out, hdfVars, cliVars, haVars>>

CallDownloadPowerConsumption ==
    /\ calls < MaxCalls
    /\ calls' = calls + 1
    /\ \E mprn \in {"", "m", "unknown"}, reached \in BOOLEAN, readOk \in BOOLEAN :
        \E status \in ServerStatuses(session, mprn) :
            LET r == DownloadPowerConsumption(mprn, reached, status, readOk)
            IN  /\ out' = [mprn |-> mprn, loggedIn |-> session, reached |-> reached,
                           status |-> (IF mprn # "" /\ reached THEN status ELSE 0),
                           requests |-> r.requests, data |-> r.data, err |-> r.err]
                /\ sent' = sent + r.requests
    /\ UNCHANGED <<session, hdfVars, cliVars, haVars>>

EsbNext == Login \/ Expire \/ CallDownloadPowerConsumption

EsbSpec == EsbInit /\ [][EsbNext]_vars

(***************************************************************************)
(* A program that uses package ha: NewConnection, then calls of            *)
(* SendStatistics on the Connection it returned, and Close.                *)
(***************************************************************************)
HaInit == HaStart /\ NewClient /\ UploadStart /\ ParseStart("uniform")

\* NewConnection returns (nil, e); after a successful Dial it has called
\* ret.Close() first.
NewConnectionFails(c, e) ==
    /\ hpc' = "failed"
    /\ hret' = e
    /\ conn' = IF c.ws = "open" THEN Close(c) ELSE c

\* NewConnection: websocket.Dial, and the Connection with msgID 42.
NewConnectionDial ==
    /\ hpc = "dial"
    /\ \E ok \in BOOLEAN :
        IF ok
        THEN /\ conn' = [ws |-> "open", msgID |-> FirstMessageID, ServerVersion |-> ""]
             /\ hpc' = "login"
             /\ UNCHANGED hret
        ELSE NewConnectionFails(conn, "dial")
    /\ UNCHANGED <<wire, hello, sends>>
    /\ UNCHANGED <<hdfVars, cliVars, esbVars>>

\* login: the first message is read and checked, and the access token is
\* written.
LoginReadAuthRequired ==
    /\ hpc = "login"
    /\ \E rd \in Reads(AuthMessages), written \in BOOLEAN :
        /\ hello' = Append(hello, rd)
        /\ IF loginAuthRequired(rd) # "nil"
           THEN /\ NewConnectionFails(conn, loginAuthRequired(rd))
                /\ UNCHANGED wire
           ELSE LET c == [conn EXCEPT !.ServerVersion = rd.msg.HAVersion]
                IN  IF ~written
                    THEN /\ NewConnectionFails(c, "write")
                         /\ UNCHANGED wire
                    ELSE /\ wire' = Append(wire, [Type |-> "auth", ID |-> 0])
                         /\ conn' = c
                         /\ hpc' = "auth"
                         /\ UNCHANGED hret
    /\ UNCHANGED sends
    /\ UNCHANGED <<hdfVars, cliVars, esbVars>>

\* login: the answer to the access token is read and checked; NewConnection
\* returns.
LoginReadAuthOk ==
    /\ hpc = "auth"
    /\ \E rd \in Reads(AuthMessages) :
        /\ hello' = Append(hello, rd)
        /\ IF loginAuthOk(rd) # "nil"
           THEN NewConnectionFails(conn, loginAuthOk(rd))
           ELSE /\ hpc' = "ready"
                /\ hret' = "connection"
                /\ UNCHANGED conn
    /\ UNCHANGED <<wire, sends>>
    /\ UNCHANGED <<hdfVars, cliVars, esbVars>>

\* SendStatistics: the id is taken and the request is written.
SendStatistics ==
    /\ hpc = "ready"
    /\ Len(sends) < MaxSends
    /\ LET inc == incMessageID(conn)
       IN  /\ conn' = inc.c
           /\ \E written \in BOOLEAN :
               IF written
               THEN /\ wire' = Append(wire, [Type |-> "recorder/import_statistics",
                                             ID |-> inc.r])
                    /\ hpc' = "wait"
                    /\ UNCHANGED sends
               ELSE /\ sends' = Append(sends, [id |-> inc.r,
                                              rd |-> [ok |-> FALSE, msg |-> ZeroMessage],
                                              err |-> "write"])
                    /\ UNCHANGED <<wire, hpc>>
    /\ UNCHANGED <<hello, hret>>
    /\ UNCHANGED <<hdfVars, cliVars, esbVars>>

\* SendStatistics: waitResponse reads the next message, and SendStatistics
\* returns what it returns.
WaitResponse ==
    /\ hpc = "wait"
    /\ LET id == wire[Len(wire)].ID
       IN  \E rd \in Reads(Responses(id)) :
               sends' = Append(sends, [id |-> id, rd |-> rd, err |-> waitResponse(rd, id)])
    /\ hpc' = "ready"
    /\ UNCHANGED <<conn, wire, hello, hret>>
    /\ UNCHANGED <<hdfVars, cliVars, esbVars>>

\* Connection.Close between two calls of SendStatistics.
ConnectionClose ==
    /\ hpc = "ready"
    /\ conn' = Close(conn)
    /\ hpc' = "closed"
    /\ UNCHANGED <<wire, hello, hret, sends>>
    /\ UNCHANGED <<hdfVars, cliVars, esbVars>>

HaNext ==
    \/ NewConnectionDial
    \/ LoginReadAuthRequired
    \/ LoginReadAuthOk
    \/ SendStatistics
    \/ WaitResponse
    \/ ConnectionClose

HaSpec == HaInit /\ [][HaNext]_vars

(***************************************************************************)
(* Vocabulary of the properties.                                           *)
(***************************************************************************)
\* HDF has returned: with blocks and no error (Accepted) or with an error.
Returned == pc \in {"upload", "failed", "done", "panicked"}

Accepted == pc \in {"upload", "done", "panicked"}

EndTimes(reads) == [k \in 1..Len(reads) |-> reads[k].EndTime]

\* The record is one parseLine accepts.
WellFormed(record) ==
    /\ Len(record) = Len(headerFormat)
    /\ record[4] = wantReadType
    /\ FloatTextOk(record[3])
    /\ TimeTextOk(record[5])

AllWellFormed == \A k \in 1..Len(file) : WellFormed(file[k])

\* The instants of the rows as ParseInLocation resolves them, in file order.
NaiveTimes == [k \in 1..Len(file) |-> ParseInLocation(file[k][5])]

\* A wall-clock text that names two instants: the hour repeated on 29-10-2023.
Ambiguous(sts) == Wall(sts) >= AutumnUTC /\ Wall(sts) < AutumnUTC + MinutesPerHour

\* The index of the block that holds position j of the reading list.
RECURSIVE BlockOf(_, _, _)
BlockOf(rr, b, j) ==
    IF b >= Len(rr) \/ j <= Len(rr[b].Reads) THEN b ELSE BlockOf(rr, b + 1, j - Len(rr[b].Reads))

(***************************************************************************)
(* C1.  An input that covers the autumn transition without gaps is         *)
(* accepted as one block in exact 30-minute steps; the rows 01:00, 00:30,  *)
(* 00:00, 00:30 of 29-10-2023 (file order) yield 00:30 IST, 00:00 GMT,     *)
(* 00:30 GMT, 01:00 GMT.  Stated for the rows of the repository's test     *)
(* "Leaving Daylight Saving time".                                         *)
(***************************************************************************)
LeavingDSTRows ==
    <<<<29, 10, 1, 0>>, <<29, 10, 0, 30>>, <<29, 10, 0, 0>>, <<29, 10, 0, 30>>>>

C1_LeavingDST ==
    (/\ Returned
     /\ AllWellFormed
     /\ [k \in 1..Len(file) |-> file[k][5]] = LeavingDSTRows)
    => /\ err = NoError
       /\ Len(parsed) = 1
       /\ EndTimes(parsed[1].Reads) =
              <<AutumnUTC - 90, AutumnUTC - 60, AutumnUTC - 30, AutumnUTC>>

(***************************************************************************)
(* C2.  Two chronologically consecutive readings separated by a positive   *)
(* delta other than 30 minutes end in different blocks; the blocks are in  *)
(* ascending time order and do not overlap.  Stated for the readings whose *)
(* wall-clock texts name one instant only, for which the chronology is the *)
(* one ParseInLocation resolves.  Position j of the reading list is row    *)
(* Len(file) + 1 - j of the file.                                          *)
(***************************************************************************)
C2_GapsSplit ==
    (Accepted /\ AllWellFormed) =>
        /\ \A j \in 1..(Len(file) - 1) :
            LET older == file[Len(file) + 1 - j][5]
                newer == file[Len(file) - j][5]
                delta == ParseInLocation(newer) - ParseInLocation(older)
            IN  (~Ambiguous(older) /\ ~Ambiguous(newer) /\ delta > 0 /\ delta # HalfHour)
                => BlockOf(parsed, 1, j) # BlockOf(parsed, 1, j + 1)
        /\ \A b \in 1..(Len(parsed) - 1) :
            /\ parsed[b].Reads # <<>>
            /\ parsed[b + 1].Reads # <<>>
            /\ parsed[b].Reads[Len(parsed[b].Reads)].EndTime < parsed[b + 1].Reads[1].EndTime

(***************************************************************************)
(* C3.  Translate answers every empty or too-short block with the error    *)
(* "not enough data" and never aborts the process: a block with nothing    *)
(* left after the leading trim is an error of that block only.             *)
(***************************************************************************)
C3_TooShortIsAnError ==
    (idx > 0 /\ Retained(parsed[idx]) = <<>>) =>
        /\ pc # "panicked"
        /\ stat.outcome = "error"
        /\ stat.err.kind = "not enough data"

(***************************************************************************)
(* C4.  As claimed: Translate emits a StatPoint exactly when the number of *)
(* retained readings consumed is even and non-zero (2nd, 4th, ...).        *)
(***************************************************************************)
C4_EmitsOnEvenCount ==
    (idx > 0 /\ stat.outcome = "ok") =>
        stat.consumed = [k \in 1..(Len(Retained(parsed[idx])) \div 2) |-> 2 * k]

(***************************************************************************)
(* C4, amended.  Translate emits a StatPoint exactly when the 0-based      *)
(* index of the retained reading it consumes is even and non-zero, that is *)
(* on the 3rd, 5th, 7th, ... retained reading: n retained readings yield   *)
(* (n - 1) div 2 StatPoints.                                               *)
(***************************************************************************)
C4_EmitsOnEvenIndex ==
    (idx > 0 /\ stat.outcome = "ok") =>
        /\ stat.consumed = [k \in 1..((Len(Retained(parsed[idx])) - 1) \div 2) |-> 2 * k + 1]
        /\ Len(stat.Stats) = Len(stat.consumed)

C4_Witness == idx > 0 /\ stat.outcome = "ok" /\ Len(stat.Stats) >= 2

(***************************************************************************)
(* C5.  In every block HDF returns without error, consecutive endTimes     *)
(* differ by exactly 30 minutes and every endTime lies on minute 0 or 30.  *)
(***************************************************************************)
C5_BlocksAreHalfHourly ==
    Accepted =>
        \A b \in 1..Len(parsed) :
            LET reads == parsed[b].Reads
            IN  /\ \A k \in 1..Len(reads) : Minute(reads[k].EndTime) \in {0, 30}
                /\ \A k \in 1..(Len(reads) - 1) :
                       reads[k + 1].EndTime - reads[k].EndTime = 30

C5_Witness ==
    /\ Accepted
    /\ Len(parsed) >= 2
    /\ \E b \in 1..Len(parsed) : Len(parsed[b].Reads) >= 2

(***************************************************************************)
(* C6.  As claimed: HDF returns an error, and no blocks, for every input   *)
(* that is empty, has a header of the wrong length or with a wrong name,   *)
(* or has a row with a non-numeric value, an unparsable timestamp, a wrong *)
(* read type, a wrong field count or a minute that is neither 0 nor 30.    *)
(***************************************************************************)
BadHeader == header # headerFormat

Misaligned(record) == WellFormed(record) /\ record[5][4] \notin {0, 30}

Defective == BadHeader \/ \E k \in 1..Len(file) : ~WellFormed(file[k]) \/ Misaligned(file[k])

C7_WrongOrderIsRejected ==
    (/\ Returned
     /\ AllWellFormed
     /\ \A k \in 1..Len(file) : ~Ambiguous(file[k][5])
     /\ \E k \in 1..(Len(file) - 1) : NaiveTimes[k] <= NaiveTimes[k + 1])
    => err # NoError

(***************************************************************************)
(* C8.  When HDF succeeds all rows carried the MPRN and the serial number  *)
(* of the first row, and every block carries them; a later row that        *)
(* differs makes HDF fail, and when that row is otherwise well formed the  *)
(* error quotes the two conflicting values.                                *)
(***************************************************************************)
SameMeter(k) == file[k][1] = file[1][1] /\ file[k][2] = file[1][2]

C8_OneMeter ==
    /\ Accepted =>
        /\ \A k \in 1..Len(file) : SameMeter(k)
        /\ Len(file) >= 1 =>
              \A b \in 1..Len(parsed) :
                  /\ parsed[b].MPRN = file[1][1]
                  /\ parsed[b].MeterSerialNumber = file[1][2]
    /\ (Returned /\ \E k \in 1..Len(file) : ~SameMeter(k)) => err # NoError
    /\ (/\ pc = "failed"
        /\ AllWellFormed
        /\ Len(file) >= 1
        /\ ~SameMeter(Len(file)))
       => LET last == file[Len(file)]
          IN  IF last[1] # file[1][1]
              THEN err = Error("multiple MPRN", NoLine, file[1][1], last[1])
              ELSE err = Error("multiple serial numbers", NoLine, file[1][2], last[2])

C8_Witness ==
    /\ pc = "failed"
    /\ Len(file) >= 3
    /\ err.kind = "multiple serial numbers"

(***************************************************************************)
(* C9.  As claimed: when HDF fails because of a data row, the failure is   *)
(* raised for the first invalid row in file order and the error carries    *)
(* that row's 1-based index, for every kind of row error, a MPRN or        *)
(* serial-number mismatch included.  Stated for the errors that HDF and    *)
(* parseLine raise themselves.                                             *)
(***************************************************************************)
ParseLineErrors == {"read type", "parse value", "parse time"}

MeterErrors == {"multiple MPRN", "multiple serial numbers"}

RowErrors == ParseLineErrors \cup MeterErrors \cup {"wrong number of fields"}

\* Row k of the file is one the read loop accepts.
RowOk(k) == WellFormed(file[k]) /\ SameMeter(k)

FailedOnFirstInvalidRow ==
    /\ Len(file) >= 1
    /\ ~RowOk(Len(file))
    /\ \A k \in 1..(Len(file) - 1) : RowOk(k)
    /\ Len(res.Reads) = Len(file) - 1

C9_RowErrorsCarryIndex ==
    (pc = "failed" /\ err.kind \in ParseLineErrors \cup MeterErrors) =>
        /\ FailedOnFirstInvalidRow
        /\ err.line = Len(file)

(***************************************************************************)
(* C9, amended.  When HDF fails on a data row in its read loop, that row   *)
(* is the first invalid row in file order and no later row has been read;  *)
(* a read-type, value or timestamp error carries the row's 1-based index,  *)
(* a MPRN or serial-number mismatch quotes the two conflicting values and  *)
(* carries no row index, and a field-count error carries the line number   *)
(* of the csv reader, which counts the header line.                        *)
(***************************************************************************)
C9_RowErrorsByKind ==
    (pc = "failed" /\ err.kind \in RowErrors) =>
        /\ FailedOnFirstInvalidRow
        /\ err.kind \in ParseLineErrors => err.line = Len(file)
        /\ err.kind \in MeterErrors =>
              /\ err.line = NoLine
              /\ err.got \in {file[1][1], file[1][2]}
              /\ err.want \in {file[Len(file)][1], file[Len(file)][2]}
        /\ err.kind = "wrong number of fields" => err.line = Len(file) + 1

C9_Witness ==
    /\ pc = "failed"
    /\ Len(file) >= 3
    /\ err.kind = "multiple MPRN"

(***************************************************************************)
(* C10.  A well-formed file in descending order with uniform 30-minute     *)
(* spacing and no daylight-saving transition yields one block: the rows in *)
(* reverse file order, values and instants as parsed, ascending in exact   *)
(* 30-minute steps.                                                        *)
(***************************************************************************)
UniformFile ==
    /\ AllWellFormed
    /\ \A k \in 1..Len(file) : SameMeter(k)
    /\ \A k \in 1..(Len(file) - 1) : NaiveTimes[k] - NaiveTimes[k + 1] = 30
    /\ \A k \in 1..Len(file) : ZoneOffset(NaiveTimes[k]) = ZoneOffset(NaiveTimes[1])
    /\ \A k \in 1..Len(file) : file[k][5][4] \in {0, 30}

C10_UniformIsOneBlock ==
    (Returned /\ header = headerFormat /\ UniformFile) =>
        /\ err = NoError
        /\ Len(parsed) = 1
        /\ parsed[1].Reads =
              [j \in 1..Len(file) |->
                  [Value |-> ParseFloat(file[Len(file) + 1 - j][3]),
                   EndTime |-> NaiveTimes[Len(file) + 1 - j]]]
        /\ \A j \in 1..(Len(file) - 1) :
              parsed[1].Reads[j + 1].EndTime - parsed[1].Reads[j].EndTime = 30

C10_Witness ==
    /\ Accepted
    /\ UniformFile
    /\ Len(file) >= 5
    /\ \E k \in 1..Len(file) : file[k][3] # file[1][3]

(***************************************************************************)
(* C11.  The rows 02:30, 02:00, 00:30, 00:00 of 26-03-2023 (file order),   *)
(* which cross the spring transition, are returned as one block: 00:00 GMT,*)
(* 00:30 GMT, 02:00 IST, 02:30 IST, each the instant ParseInLocation       *)
(* resolved, fixTimezone having changed none.                              *)
(***************************************************************************)
EnteringDSTRows ==
    <<<<26, 3, 2, 30>>, <<26, 3, 2, 0>>, <<26, 3, 0, 30>>, <<26, 3, 0, 0>>>>

EnteringDSTFile ==
    /\ Returned
    /\ AllWellFormed
    /\ \A k \in 1..Len(file) : SameMeter(k)
    /\ [k \in 1..Len(file) |-> file[k][5]] = EnteringDSTRows

C11_EnteringDST ==
    EnteringDSTFile =>
        /\ err = NoError
        /\ Len(parsed) = 1
        /\ EndTimes(parsed[1].Reads) =
               <<SpringUTC - 60, SpringUTC - 30, SpringUTC, SpringUTC + 30>>
        /\ EndTimes(parsed[1].Reads) = Reverse(NaiveTimes)
        /\ EndTimes(res.Reads) = Reverse(NaiveTimes)

C11_Witness == EnteringDSTFile /\ Accepted

(***************************************************************************)
(* C12.  In the statistics Translate returns for one block, the Sum of the *)
(* k-th StatisticValue is the total of the States of the first k; the      *)
(* total starts at zero in every block, whatever the blocks before it      *)
(* summed to.                                                              *)
(***************************************************************************)
RECURSIVE StateTotal(_, _)
StateTotal(stats, k) == IF k = 0 THEN 0 ELSE StateTotal(stats, k - 1) + stats[k].State

C12_SumIsRunningTotal ==
    (idx > 0 /\ stat.outcome = "ok") =>
        \A k \in 1..Len(stat.Stats) : stat.Stats[k].Sum = StateTotal(stat.Stats, k)

\* The second block translated to a StatisticValue after the first one did.
C12_Witness ==
    /\ idx = 2
    /\ stat.outcome = "ok"
    /\ Len(stat.Stats) >= 1
    /\ Translate(parsed[1]).outcome = "ok"
    /\ Len(Translate(parsed[1]).Stats) >= 1

(***************************************************************************)
(* Vocabulary of the aggregation: the readings Translate retained of the   *)
(* block it was last called with, the total of the values of positions     *)
(* a..b of them, and the position at which the k-th StatisticValue was     *)
(* appended (0 for k = 0).                                                 *)
(***************************************************************************)
Translated == idx > 0 /\ stat.outcome # "panic" /\ Retained(parsed[idx]) # <<>>

RetainedNow == Retained(parsed[idx])

RECURSIVE ValueTotal(_, _, _)
ValueTotal(reads, a, b) == IF b < a THEN 0 ELSE ValueTotal(reads, a, b - 1) + reads[b].Value

EmittedAt(k) == IF k = 0 THEN 0 ELSE stat.consumed[k]

LastEmitted == EmittedAt(Len(stat.consumed))

(***************************************************************************)
(* C13.  As claimed: every retained reading but at most one trailing       *)
(* reading is counted in exactly one StatisticValue, and the reading left  *)
(* over produces neither a StatisticValue nor an error.                    *)
(***************************************************************************)
C13_AtMostOneLeftOver ==
    Translated =>
        /\ stat.outcome = "ok"
        /\ Len(RetainedNow) - LastEmitted <= 1
        /\ 2 * StateTotal(stat.Stats, Len(stat.Stats)) = ValueTotal(RetainedNow, 1, LastEmitted)

(***************************************************************************)
(* C13, amended.  Of n >= 3 retained readings every one but the trailing   *)
(* reading of an even n is counted in exactly one StatisticValue; of one   *)
(* or two retained readings none is counted.  The readings left over       *)
(* produce neither a StatisticValue nor an error.                          *)
(***************************************************************************)
C13_LeftOverByCount ==
    Translated =>
        LET n == Len(RetainedNow)
        IN  /\ stat.outcome = "ok"
            /\ Len(stat.Stats) = Len(stat.consumed)
            /\ n - LastEmitted = (IF n <= 2 THEN n ELSE (n - 1) % 2)
            /\ 2 * StateTotal(stat.Stats, Len(stat.Stats)) = ValueTotal(RetainedNow, 1, LastEmitted)

C13_Witness ==
    /\ Translated
    /\ Len(RetainedNow) = 4
    /\ Len(stat.Stats) = 1
    /\ RetainedNow[4].Value # 0

(***************************************************************************)
(* C14.  The State of every StatisticValue is half the total of the values *)
(* of the readings consumed after the StatisticValue before it (or since   *)
(* the loop began) up to and including the reading that triggered it: no   *)
(* reading is counted in two StatisticValues.                              *)
(***************************************************************************)
C14_StateIsHalfTheValues ==
    (Translated /\ stat.outcome = "ok") =>
        /\ Len(stat.Stats) = Len(stat.consumed)
        /\ \A k \in 1..Len(stat.Stats) :
              /\ EmittedAt(k - 1) < EmittedAt(k)
              /\ EmittedAt(k) <= Len(RetainedNow)
              /\ 2 * stat.Stats[k].State =
                     ValueTotal(RetainedNow, EmittedAt(k - 1) + 1, EmittedAt(k))

C14_Witness ==
    /\ Translated
    /\ stat.outcome = "ok"
    /\ Len(stat.Stats) >= 2
    /\ stat.Stats[1].State # stat.Stats[2].State

(***************************************************************************)
(* C15.  When the first reading of a block lies on the hour Translate      *)
(* drops it: it is counted in no State and no Sum, and the first reading   *)
(* Translate retains is a minute-30 reading.                               *)
(***************************************************************************)
FirstOnTheHour == idx > 0 /\ parsed[idx].Reads # <<>> /\ Minute(parsed[idx].Reads[1].EndTime) = 0

C15_LeadingHourIsDropped ==
    /\ Translated => Minute(RetainedNow[1].EndTime) = HalfHour
    /\ (Translated /\ FirstOnTheHour /\ stat.outcome = "ok") =>
          /\ RetainedNow = Tail(parsed[idx].Reads)
          /\ \A k \in 1..Len(stat.Stats) :
                /\ 2 * stat.Stats[k].Sum = ValueTotal(parsed[idx].Reads, 2, EmittedAt(k) + 1)
                /\ stat.Stats[k].Start > parsed[idx].Reads[1].EndTime

C15_Witness ==
    /\ Translated
    /\ FirstOnTheHour
    /\ Len(stat.Stats) >= 1
    /\ parsed[idx].Reads[1].Value # 0

(***************************************************************************)
(* C16.  Every reading of every block HDF returns without error has a      *)
(* value greater than or equal to zero.                                    *)
(***************************************************************************)
C16_ValuesAreNotNegative ==
    Accepted =>
        \A b \in 1..Len(parsed) :
            \A k \in 1..Len(parsed[b].Reads) : parsed[b].Reads[k].Value >= 0

(***************************************************************************)
(* C17.  A reading that fixTimezone considers (a GMT reading) and that has *)
(* neither an entry two positions later nor one two positions earlier      *)
(* keeps its instant, and one line is logged for it; with at most two      *)
(* readings, where every position is such, HDF returns what splitTimes     *)
(* makes of the readings as parsed, so that it fails only for a reason     *)
(* the readings as parsed carry.                                           *)
(***************************************************************************)
\* The readings as parseLine parsed them, in ascending position.
AsParsed ==
    [j \in 1..Len(file) |->
        [Value |-> ParseFloat(file[Len(file) + 1 - j][3]),
         EndTime |-> NaiveTimes[Len(file) + 1 - j]]]

ReadToTheEnd == Returned /\ header = headerFormat /\ AllWellFormed /\ \A k \in 1..Len(file) : SameMeter(k)

C17_TooLittleDataIsHarmless ==
    ReadToTheEnd =>
        /\ Len(res.Reads) = Len(file)
        /\ \A k \in TooLittleData(AsParsed) : res.Reads[k] = AsParsed[k]
        /\ logged = Cardinality(TooLittleData(AsParsed))
        /\ Len(file) <= 2 =>
              /\ res.Reads = AsParsed
              /\ parsed = splitTimes([res EXCEPT !.Reads = AsParsed]).rr
              /\ err = splitTimes([res EXCEPT !.Reads = AsParsed]).err

\* The middle one of three readings is in the repeated hour and has no
\* entry two positions away.
C17_Witness ==
    /\ ReadToTheEnd
    /\ Accepted
    /\ Len(file) = 3
    /\ Ambiguous(file[2][5])
    /\ logged = 1

(***************************************************************************)
(* C18.  fixTimezone is idempotent on ascending lists: when the readings   *)
(* as parsed are strictly ascending, or the readings the first run         *)
(* produced are, a second run of fixTimezone on what the first run         *)
(* produced changes no reading.                                            *)
(***************************************************************************)
Ascending(reads) ==
    \A k \in 1..(Len(reads) - 1) : reads[k].EndTime < reads[k + 1].EndTime

C18_FixTimezoneIsIdempotent ==
    (ReadToTheEnd /\ (Ascending(AsParsed) \/ Ascending(res.Reads))) =>
        /\ res.Reads = fixTimezone(AsParsed)
        /\ fixTimezone(res.Reads) = res.Reads

\* The first run moved a reading.
C18_Witness ==
    /\ ReadToTheEnd
    /\ Ascending(AsParsed)
    /\ Len(file) >= 3
    /\ res.Reads # AsParsed

(***************************************************************************)
(* C19.  Once Execute has checked the flags, the value of every flag of    *)
(* the subcommand is its command-line value when that is not empty and     *)
(* the environment variable of its name otherwise; when a flag is still    *)
(* empty Execute returns ExitUsageError and starts no download, parse or   *)
(* upload.                                                                 *)
(***************************************************************************)
Effective(n) == IF cli[n] # "" THEN cli[n] ELSE env[n]

C19_FlagsThenEnvironment ==
    cpc # "start" =>
        /\ DOMAIN flags = Flags(cmd)
        /\ \A n \in Flags(cmd) : flags[n] = Effective(n)
        /\ (\E n \in Flags(cmd) : Effective(n) = "") =>
              /\ cpc = "done"
              /\ cret = "ExitUsageError"
              /\ attempted = {}
        /\ (\A n \in Flags(cmd) : Effective(n) # "") => cret # "ExitUsageError"

\* pipe has run with a flag from the command line, one from the environment
\* and one from the command line that the environment also sets.
C19_Witness ==
    /\ cmd = "pipe"
    /\ cpc = "done"
    /\ "upload" \in attempted
    /\ \E n \in Flags(cmd) : cli[n] = "" /\ flags[n] = "env"
    /\ \E n \in Flags(cmd) : env[n] # "" /\ flags[n] = "cli"

(***************************************************************************)
(* C20.  DownloadPowerConsumption returns data only when the server        *)
(* answered 200, and then the data is the body of that answer; with an     *)
(* empty mprn it fails and sends no request; when no login is in force and *)
(* the request reaches the server, which answers 302, it sends that one    *)
(* request only and returns "login expired or invalid" and no data.        *)
(***************************************************************************)
C20_DataOnlyOn200 ==
    out # NoOutput =>
        /\ out.data # "" => (out.status = StatusOK /\ out.err = "nil" /\ out.data = "hdf")
        /\ out.err = "nil" => out.data # ""
        /\ out.mprn = "" => (out.err = "missing mprn" /\ out.requests = 0 /\ out.data = "")
        /\ (out.mprn # "" /\ out.reached /\ ~out.loggedIn) =>
              /\ out.status = StatusFound
              /\ out.requests = 1
              /\ out.err = "login expired or invalid"
              /\ out.data = ""

\* A download after the login of an earlier successful download has expired.
C20_Witness ==
    /\ out.err = "login expired or invalid"
    /\ sent >= 2
    /\ calls = 3

(***************************************************************************)
(* C21.  A reading ParseInLocation resolved to IST whose entry two         *)
(* positions earlier is the identical instant is moved by fixTimezone to   *)
(* exactly one hour later; an IST reading whose entry two positions        *)
(* earlier is another instant, and which has no entry two positions later, *)
(* is not moved.                                                           *)
(***************************************************************************)
IsIST(k) == ZoneName(AsParsed[k].EndTime) = "IST"

SameAsEarlier(k) ==
    /\ k - 2 >= 1
    /\ res.Reads[k - 2].EndTime = AsParsed[k].EndTime

C21_RepeatedISTMovesOneHour ==
    ReadToTheEnd =>
        \A k \in 1..Len(file) :
            IsIST(k) =>
                /\ SameAsEarlier(k) =>
                       res.Reads[k].EndTime = AsParsed[k].EndTime + MinutesPerHour
                /\ (k - 2 >= 1 /\ ~SameAsEarlier(k) /\ k + 2 > Len(file)) =>
                       res.Reads[k].EndTime = AsParsed[k].EndTime

(***************************************************************************)
(* C22.  An IST reading whose entry two positions earlier is absent or is  *)
(* another instant, and which has an entry two positions later, is moved   *)
(* one hour later exactly when that makes it one hour earlier than the     *)
(* later entry.                                                            *)
(***************************************************************************)
HourBeforeLater(k) ==
    AsParsed[k + 2].EndTime - (AsParsed[k].EndTime + MinutesPerHour) = MinutesPerHour

C22_ForwardCheck ==
    ReadToTheEnd =>
        \A k \in 1..(Len(file) - 2) :
            (IsIST(k) /\ ~SameAsEarlier(k)) =>
                res.Reads[k].EndTime =
                    (IF HourBeforeLater(k) THEN AsParsed[k].EndTime + MinutesPerHour
                     ELSE AsParsed[k].EndTime)

(***************************************************************************)
(* C23.  fixTimezone changes the instant of a reading not at all or by     *)
(* exactly one hour, and changes neither the value of a reading nor the    *)
(* number of readings nor their positions.                                 *)
(***************************************************************************)
C23_MovesByOneHourAtMost ==
    ReadToTheEnd =>
        /\ Len(res.Reads) = Len(file)
        /\ \A k \in 1..Len(file) :
              /\ res.Reads[k].Value = AsParsed[k].Value
              /\ res.Reads[k].EndTime - AsParsed[k].EndTime
                    \in {0, MinutesPerHour, 0 - MinutesPerHour}

(***************************************************************************)
(* C24.  Once HDF has returned its blocks, parseAndUpload calls upload for *)
(* every block, in order, whatever the earlier calls returned, and then    *)
(* returns; it returns ExitSuccess exactly when every call of upload       *)
(* returned without an error.                                              *)
(***************************************************************************)
C24_EverySegmentIsAttempted ==
    /\ Accepted => /\ Len(uploads) = idx
                   /\ pc \in {"upload", "done"}
    /\ pc = "done" =>
          /\ idx = Len(parsed)
          /\ ret = "ExitSuccess" <=> \A k \in 1..Len(uploads) : uploads[k] = "ok"

(***************************************************************************)
(* C25.  Every block a successful HDF returns holds at least one reading;  *)
(* an export with a valid header and no data row yields no block, and      *)
(* parseAndUpload calls upload for none.                                   *)
(***************************************************************************)
C25_NoEmptySegment ==
    Accepted =>
        /\ \A b \in 1..Len(parsed) : Len(parsed[b].Reads) >= 1
        /\ file = <<>> => parsed = <<>> /\ uploads = <<>>

(***************************************************************************)
(* C26.  The blocks a successful HDF returns, concatenated in order, are   *)
(* exactly the reading list fixTimezone left: no reading is dropped,       *)
(* duplicated, reordered or modified.  Every block carries the MPRN, the   *)
(* serial number and the read type of the series.                          *)
(***************************************************************************)
RECURSIVE Concat(_)
Concat(blocks) ==
    IF blocks = <<>> THEN <<>>
    ELSE Head(blocks).Reads \o Concat(Tail(blocks))

C26_SegmentsPartitionTheReadings ==
    Accepted =>
        /\ Concat(parsed) = res.Reads
        /\ \A b \in 1..Len(parsed) :
              /\ parsed[b].MPRN = res.MPRN
              /\ parsed[b].MeterSerialNumber = res.MeterSerialNumber
              /\ parsed[b].ReadTypes = res.ReadTypes

\* A file with a data gap is accepted: two blocks, one of them with more
\* than one reading, all with the identifiers of the rows.
C26_Witness ==
    /\ Accepted
    /\ Len(parsed) = 2
    /\ \E b \in 1..Len(parsed) : Len(parsed[b].Reads) > 1
    /\ Len(res.Reads) = Len(file)
    /\ parsed[2].MPRN = file[1][1]
    /\ parsed[2].MeterSerialNumber = file[1][2]
    /\ parsed[2].ReadTypes = wantReadType

(***************************************************************************)
(* C27.  For every block Translate accepts, the Start of each              *)
(* StatisticValue is the EndTime of the reading immediately before the     *)
(* reading that triggered the emission, lies exactly on the hour, and is   *)
(* exactly one hour after the Start of the StatisticValue before it.       *)
(***************************************************************************)
C27_StartsAreHourly ==
    (Translated /\ stat.outcome = "ok") =>
        \A k \in 1..Len(stat.Stats) :
            /\ EmittedAt(k) > 1
            /\ stat.Stats[k].Start = RetainedNow[EmittedAt(k) - 1].EndTime
            /\ Minute(stat.Stats[k].Start) = 0
            /\ k > 1 => stat.Stats[k].Start - stat.Stats[k - 1].Start = MinutesPerHour

\* Translate accepted a block and emitted two StatisticValues.
C27_Witness ==
    /\ Translated
    /\ stat.outcome = "ok"
    /\ Len(stat.Stats) >= 2

(***************************************************************************)
(* C28.  NewConnection writes the access token only after the first        *)
(* message read has type auth_required and a non-empty ha_version; it      *)
(* returns a Connection only after the message read next has type auth_ok, *)
(* and the websocket of that Connection is open until Close; whenever it   *)
(* returns an error the websocket it dialled is closed.                    *)
(***************************************************************************)
TokenSent == \E k \in 1..Len(wire) : wire[k].Type = "auth"

AuthRequired(rd) ==
    rd.ok /\ rd.msg.MessageType = "auth_required" /\ rd.msg.HAVersion # ""

AuthOk(rd) == rd.ok /\ rd.msg.MessageType = "auth_ok"

C28_LoginHandshake ==
    /\ TokenSent => Len(hello) >= 1 /\ AuthRequired(hello[1])
    /\ hret = "connection" =>
          /\ TokenSent
          /\ Len(hello) = 2
          /\ AuthOk(hello[2])
          /\ conn.ServerVersion = hello[1].msg.HAVersion
          /\ hpc # "closed" => conn.ws = "open"
    /\ hpc = "failed" =>
          /\ hret \notin {"none", "connection"}
          /\ conn.ws # "open"
          /\ hret # "dial" => conn.ws = "closed"
    /\ (Len(hello) = 2 /\ ~AuthOk(hello[2])) => hpc = "failed"
    /\ (Len(hello) >= 1 /\ ~AuthRequired(hello[1])) => hpc = "failed"

\* The server asked for the token and then refused it: NewConnection has
\* returned an error, with the token sent and the websocket closed.
C28_Witness ==
    /\ hpc = "failed"
    /\ TokenSent
    /\ hret = "invalid auth"
    /\ hello[2].msg.MessageType = "auth_invalid"
    /\ conn.ws = "closed"

(***************************************************************************)
(* C29.  SendStatistics returns nil only when the message it read next has *)
(* the id of the request it wrote, type result and success true; the calls *)
(* on one Connection use strictly increasing ids, each the id written.     *)
(***************************************************************************)
Requests == SelectSeq(wire, LAMBDA m : m.Type = "recorder/import_statistics")

C29_AckMatchesRequest ==
    /\ \A k \in 1..Len(sends) :
          /\ sends[k].err = "nil" =>
                /\ sends[k].rd.ok
                /\ sends[k].rd.msg.ID = sends[k].id
                /\ sends[k].rd.msg.MessageType = "result"
                /\ sends[k].rd.msg.Success
          /\ k > 1 => sends[k].id > sends[k - 1].id
          /\ sends[k].id = FirstMessageID + k - 1
    /\ \A k \in 1..Len(Requests) :
          /\ Requests[k].ID >= FirstMessageID
          /\ k > 1 => Requests[k].ID > Requests[k - 1].ID

\* A call answered for another id failed, and the next call, with the next
\* id, succeeded.
C29_Witness ==
    /\ Len(sends) >= 2
    /\ sends[1].err = "protocol out of sync"
    /\ sends[1].rd.msg.MessageType = "result"
    /\ sends[1].rd.msg.Success
    /\ sends[2].err = "nil"
    /\ sends[2].id = sends[1].id + 1

(***************************************************************************)
(* C30.  When parseAndUpload has returned, every Home Assistant connection *)
(* upload opened has been closed.                                          *)
(***************************************************************************)
C30_NoConnectionLeftOpen == pc = "done" => open = 0

====
